---- MODULE Spec2Model ----
(***************************************************************************)
(* Model of the wer-liefert-was B2B marketplace scraper:                   *)
(*   - extractors/utils.py      fetch_page (retry loop with backoff)       *)
(*   - extractors/*_parser.py   summary extraction from result cards       *)
(*   - main.py                  configuration, crawl loops, export         *)
(*   - outputs/json_exporter.py export payload                             *)
(*                                                                         *)
(* Text is modelled as a sequence of tokens, so the empty string is <<>>.  *)
(* An HTML document is a sequence of elements; the empty document (the     *)
(* empty response body) is <<>> as well, which is what `not html_text`     *)
(* tests in the crawl loops.                                               *)
(***************************************************************************)
EXTENDS Integers, Sequences, FiniteSets, TLC

\* ------------------------------------------------------------------------
\* Bounds of the model
\* ------------------------------------------------------------------------
MaxRetries == 3
MaxBackoff == 2
\* largest page number the model lets a crawl request
PageCap == 2
\* largest max_pages setting tried
MaxPagesOpt == 2
\* largest number of cards in a search-result document
MaxElems == 2
\* most <a> descendants of a card handed to an extractor
MaxAnchors == 2
\* longest address text tried (in tokens: words, blanks, commas)
MaxAddrLen == 7
\* most elements of a document handed to a list extractor
MaxListLen == 3

\* ------------------------------------------------------------------------
\* Program constants
\* ------------------------------------------------------------------------
\* RetryConfig.retries
DefaultRetries == 3
\* RetryConfig.backoff_factor = 0.5 s; delays are counted in units of 0.5 s
DefaultBackoffFactor == 1

\* Python's None, kept apart from every text (a text is a token sequence)
None == <<"<None>">>

\* Python truthiness of an Optional[str]
Truthy(s) == s /= None /\ s /= <<>>

\* a or b
Or(a, b) == IF Truthy(a) THEN a ELSE b

RECURSIVE Pow2(_)
Pow2(n) == IF n = 0 THEN 1 ELSE 2 * Pow2(n - 1)

RECURSIVE SumSeq(_)
SumSeq(s) == IF s = <<>> THEN 0 ELSE Head(s) + SumSeq(Tail(s))

\* ------------------------------------------------------------------------
\* Text operations used by the extractors
\* ------------------------------------------------------------------------
\* s.strip(ch)
RECURSIVE LStrip(_, _)
LStrip(s, ch) ==
    IF s /= <<>> /\ Head(s) = ch THEN LStrip(Tail(s), ch) ELSE s

RECURSIVE RStrip(_, _)
RStrip(s, ch) ==
    IF s /= <<>> /\ s[Len(s)] = ch
      THEN RStrip(SubSeq(s, 1, Len(s) - 1), ch)
      ELSE s

Strip(s, ch) == RStrip(LStrip(s, ch), ch)

\* s.split(ch)[-1]: what follows the last ch, the whole of s without any ch
RECURSIVE SplitLast(_, _)
SplitLast(s, ch) ==
    IF s = <<>> THEN <<>>
    ELSE IF s[Len(s)] = ch THEN <<>>
    ELSE SplitLast(SubSeq(s, 1, Len(s) - 1), ch) \o <<s[Len(s)]>>

\* position of the first ch in s, 0 without any
RECURSIVE IndexOf(_, _)
IndexOf(s, ch) ==
    IF s = <<>> THEN 0
    ELSE IF Head(s) = ch THEN 1
    ELSE LET i == IndexOf(Tail(s), ch) IN IF i = 0 THEN 0 ELSE i + 1

\* s.split(ch): the pieces between the occurrences of ch, empty ones kept
RECURSIVE SplitOn(_, _)
SplitOn(s, ch) ==
    LET i == IndexOf(s, ch) IN
      IF i = 0 THEN <<s>>
      ELSE <<SubSeq(s, 1, i - 1)>> \o SplitOn(SubSeq(s, i + 1, Len(s)), ch)

\* s.split(): the whitespace-separated tokens, none of them empty
Words(s) == SelectSeq(SplitOn(s, " "), LAMBDA w : w /= <<>>)

\* sep.join(ws)
RECURSIVE JoinWith(_, _)
JoinWith(ws, sep) ==
    IF ws = <<>> THEN <<>>
    ELSE IF Len(ws) = 1 THEN ws[1]
    ELSE ws[1] \o <<sep>> \o JoinWith(Tail(ws), sep)

\* normalize_whitespace(text): " ".join(text.split()) if text else ""
normalize_whitespace(text) ==
    IF text /= <<>> THEN JoinWith(Words(text), " ") ELSE <<>>

\* str.upper() on the words that occur in the texts tried
UpperToken(t) ==
    CASE t = "Ulm" -> "ULM"
      [] t = "de" -> "DE"
      [] t = "Berlin" -> "BERLIN"
      [] t = "Germany" -> "GERMANY"
      [] t = "Hauptstr." -> "HAUPTSTR."
      [] OTHER -> t

Upper(s) == [i \in DOMAIN s |-> UpperToken(s[i])]

\* sub in s
Contains(s, sub) ==
    \E i \in 1..(Len(s) - Len(sub) + 1) :
        SubSeq(s, i, i + Len(sub) - 1) = sub

\* urljoin(base_url, href): an absolute reference overrides the base, a
\* relative one is resolved against it
UrlJoin(base, href) ==
    IF href = <<>> THEN base
    ELSE IF Head(href) = "http:" THEN href
    ELSE IF Head(href) = "/" THEN base \o href
    ELSE base \o <<"/">> \o href

\* ------------------------------------------------------------------------
\* HTML documents
\* ------------------------------------------------------------------------
\* An element of a document:
\*   sel             the first of the extractor's three card selectors that
\*                   it matches (0: none of them)
\*   data_id         attribute data-id          (None: no such attribute)
\*   data_company_id attribute data-company-id
\*   anchors         the <a> descendants in document order
\*   tag, text       tag name and text content
\*   heading         text of its first heading descendant (None: no heading)
\*   address         text of its address container       (None: no container)
\*   img_src         attribute src of its first <img>    (None: no img or src)
\* An anchor: data_test (attribute data-test), data_id, href (None: absent)
Anchor(dt, id, href) == [data_test |-> dt, data_id |-> id, href |-> href]

Element(sel, id, cid, as, tag, text) ==
    [sel |-> sel, data_id |-> id, data_company_id |-> cid, anchors |-> as,
     tag |-> tag, text |-> text,
     heading |-> None, address |-> None, img_src |-> None]

BaseUrl == <<"https://www.wlw.de">>

\* the href of the specification's example, "/firmen/acme-gmbh-4711"
ExampleHref == <<"/", "firmen", "/", "acme", "-", "gmbh", "-", "4711">>

\* fault: the selectors are tried in order and the first with a match
\* decides the cards
SelectCardsFirstWins(doc) ==
    LET Matches(n) == SelectSeq(doc, LAMBDA e : e.sel = n)
    IN  IF Matches(1) /= <<>> THEN Matches(1)
        ELSE IF Matches(2) /= <<>> THEN Matches(2)
        ELSE Matches(3)

\* soup.select("sel1, sel2, sel3"): every element matching one of the card
\* selectors, in document order
SelectCards(doc) == SelectSeq(doc, LAMBDA e : e.sel /= 0)

\* select_one: the first anchor of the card satisfying P, as a sequence of
\* one anchor, or <<>> (Python's None) without a match
SelectOne(as, P(_)) ==
    LET hits == SelectSeq(as, P) IN IF hits = <<>> THEN <<>> ELSE <<Head(hits)>>

HasHref(a) == a.href /= None

\* _extract_text(element), given the element's text (None: no element):
\* normalize_whitespace(element.get_text(strip=True)) if element else ""
ExtractText(text) ==
    IF text = None THEN <<>> ELSE normalize_whitespace(Strip(text, " "))

\* ------------------------------------------------------------------------
\* parse_company_list
\* ------------------------------------------------------------------------
\* card.select_one("a[data-test='company-link']")
\*   or card.select_one("a[href*='/firmen/']") or card.find("a")
DetailsLink(card) ==
    LET byTest == SelectOne(card.anchors,
                            LAMBDA a : a.data_test = "company-link")
        byHref == SelectOne(card.anchors,
                            LAMBDA a : HasHref(a)
                                /\ Contains(a.href, <<"/", "firmen", "/">>))
        first  == SelectOne(card.anchors, LAMBDA a : TRUE)
    IN  IF byTest /= <<>> THEN byTest
        ELSE IF byHref /= <<>> THEN byHref
        ELSE first

\* details_link["href"].strip("/").split("-")[-1]
HrefToken(href) == SplitLast(Strip(href, "/"), "-")

\* company_id as parse_company_list leaves it
CompanyId(card) ==
    LET own  == Or(card.data_id, card.data_company_id)
        link == DetailsLink(card)
    IN  IF link /= <<>> /\ HasHref(link[1]) /\ ~Truthy(own)
          THEN Or(link[1].data_id, HrefToken(link[1].href))
          ELSE own

\* details_url as parse_company_list leaves it
DetailsUrl(card) ==
    LET link == DetailsLink(card)
    IN  IF link /= <<>> /\ HasHref(link[1])
          THEN UrlJoin(BaseUrl, link[1].href)
          ELSE None

\* CompanyAddress(full=address_full), as asdict leaves it
CompanyAddress(card) ==
    [street |-> None, postal_code |-> None, city |-> None,
     country_code |-> None, full |-> ExtractText(card.address)]

\* CompanySummary(...).to_dict() of one card
CompanySummary(card) ==
    [company_id  |-> CompanyId(card),
     name        |-> Or(ExtractText(card.heading), None),
     address     |-> CompanyAddress(card),
     logo_url    |-> card.img_src,
     details_url |-> DetailsUrl(card)]

parse_company_list(html) ==
    LET cards == SelectCards(html)
    IN  [i \in 1..Len(cards) |-> CompanySummary(cards[i])]

\* ------------------------------------------------------------------------
\* parse_product_list
\* ------------------------------------------------------------------------
\* card.select_one("a[data-test='product-link'], a[href*='/produkte/']")
ProductLink(card) ==
    SelectOne(card.anchors,
              LAMBDA a : a.data_test = "product-link"
                  \/ (HasHref(a) /\ Contains(a.href, <<"/", "produkte", "/">>)))

\* card.select_one("a[data-test='company-link']")
\*   or card.select_one("a[href*='/firmen/']")
CompanyLink(card) ==
    LET byTest == SelectOne(card.anchors,
                            LAMBDA a : a.data_test = "company-link")
        byHref == SelectOne(card.anchors,
                            LAMBDA a : HasHref(a)
                                /\ Contains(a.href, <<"/", "firmen", "/">>))
    IN  IF byTest /= <<>> THEN byTest ELSE byHref

\* ProductSummary(...).to_dict() of one card
ProductSummary(card) ==
    LET plink == ProductLink(card)
        clink == CompanyLink(card)
    IN  [company_id  |-> IF clink /= <<>> /\ HasHref(clink[1])
                           THEN Or(clink[1].data_id, HrefToken(clink[1].href))
                           ELSE None,
         product_url |-> IF plink /= <<>> /\ HasHref(plink[1])
                           THEN UrlJoin(BaseUrl, plink[1].href)
                           ELSE None,
         company_url |-> IF clink /= <<>> /\ HasHref(clink[1])
                           THEN UrlJoin(BaseUrl, clink[1].href)
                           ELSE None]

parse_product_list(html) ==
    LET cards == SelectCards(html)
    IN  [i \in 1..Len(cards) |-> ProductSummary(cards[i])]

\* ------------------------------------------------------------------------
\* parse_company_details
\* ------------------------------------------------------------------------
\* the text of the address container (an <address> element), None without
AddressText(html) ==
    LET hits == SelectSeq(html, LAMBDA e : e.tag = "address")
    IN  IF hits = <<>> THEN None ELSE Head(hits).text

\* fault: the parts that are empty after trimming are kept
AddressPartsUnfiltered(address_full) ==
    LET pieces == SplitOn(address_full, ",")
    IN  [i \in 1..Len(pieces) |-> Strip(pieces[i], " ")]

\* parts = [p.strip() for p in address_full.split(",") if p.strip()]
AddressParts(address_full) ==
    LET pieces == SplitOn(address_full, ",")
    IN  SelectSeq([i \in 1..Len(pieces) |-> Strip(pieces[i], " ")],
                  LAMBDA part : part /= <<>>)

\* parts[-1].split()[-1] raises IndexError when the last part has no token
AddressRaises(address_full) ==
    LET parts == IF address_full /= <<>> THEN AddressParts(address_full)
                 ELSE <<>>
    IN  Len(parts) >= 3 /\ Words(parts[Len(parts)]) = <<>>

\* the address of the details: street, postal_code, city, country_code
\* from the parts, full as `address_full or None`
AddressBreakdown(address_full) ==
    LET parts  == IF address_full /= <<>> THEN AddressParts(address_full)
                  ELSE <<>>
        tokens == IF Len(parts) >= 2 THEN Words(parts[2]) ELSE <<>>
        last   == IF parts = <<>> THEN <<>> ELSE Words(parts[Len(parts)])
    IN  [street       |-> IF parts /= <<>> THEN parts[1] ELSE None,
         postal_code  |-> IF tokens /= <<>> THEN tokens[1] ELSE None,
         city         |-> IF tokens /= <<>>
                            THEN Or(JoinWith(Tail(tokens), " "), None)
                            ELSE None,
         country_code |-> IF Len(parts) >= 3 /\ last /= <<>>
                            THEN Upper(last[Len(last)])
                            ELSE None,
         full         |-> Or(address_full, None)]

\* soup.select_one("[data-test='company-name']") or ("h1") or ("h2"),
\* then "name": name or None, next to the company_id handed in, and the
\* address broken down
parse_company_details(html, company_id) ==
    LET h1 == SelectSeq(html, LAMBDA e : e.tag = "h1")
        h2 == SelectSeq(html, LAMBDA e : e.tag = "h2")
        name == IF h1 /= <<>> THEN Head(h1).text
                ELSE IF h2 /= <<>> THEN Head(h2).text
                ELSE <<>>
        address_full == ExtractText(AddressText(html))
    IN  [company_id |-> company_id,
         name |-> Or(name, None),
         address |-> AddressBreakdown(address_full)]

\* ------------------------------------------------------------------------
\* State
\* ------------------------------------------------------------------------
VARIABLES
    \* main and the crawl loops
    pc,               \* position of the run
    exit_status,      \* status passed to sys.exit (0 while running)
    query,            \* the query resolved from command line and files
    mode,             \* config["mode"]
    max_pages,        \* the int main derives from config["max_pages"]
    include_details,  \* bool(config["include_company_details"])
    session,          \* TRUE once create_session() has been called
    page,             \* page counter of the crawl loop
    accumulated,      \* all_companies / all_products
    on_page,          \* companies_on_page / products_on_page
    idx,              \* position of the detail loop in on_page (from 1)
    files,            \* the payloads written by export_to_json
    calls,            \* log of the fetch_page calls made and what they returned
    \* fetch_page, followed step by step
    fetch,            \* the frame of the call: position, arguments and locals
    \* an extractor applied to one card
    card,             \* the card handed to the extractor
    summary,          \* the summary the extractor made of it
    page_html         \* the document handed to a list extractor

crawlVars == <<pc, exit_status, query, mode, max_pages, include_details,
               session, page, accumulated, on_page, idx, files, calls>>

parseVars == <<card, summary, page_html>>

vars == <<crawlVars, fetch, parseVars>>

\* ------------------------------------------------------------------------
\* The transport (session.get) and Response.raise_for_status
\* ------------------------------------------------------------------------
\* HTTP status codes the server answers with: success, client error, server
\* error (status codes are the three-digit codes of the classes 1xx to 5xx)
OkStatuses == {200}
ErrorStatuses == {404, 503}

\* response.raise_for_status(): raises HTTPError for a client or server error
RaisesForStatus(status) == status >= 400 /\ status < 600

\* every sequence over S of length at most n
SeqsUpTo(S, n) == UNION {[1..k -> S] : k \in 0..n}

\* elements of the search-result documents served to a crawl: an element that
\* is no card, a card without a link, a card with the example link
PlainDiv == Element(0, None, None, <<>>, "div", <<>>)
CardPlain == Element(1, <<"17">>, None, <<>>, "article", <<>>)
CardLinked ==
    Element(1, None, None, <<Anchor("company-link", None, ExampleHref)>>,
            "article", <<>>)
\* the result lists the site pages through: one led by two cards with a
\* link, one led by a card without
LinkedFirst == [j \in 1..MaxElems |-> IF j <= 2 THEN CardLinked ELSE CardPlain]
PlainFirst == [j \in 1..MaxElems |-> IF j = 1 THEN CardPlain ELSE CardLinked]

\* search-result documents: the empty body, a document without any card, and
\* the documents showing the first cards, up to MaxElems, of a result list
SearchDocs ==
    {<<>>, <<PlainDiv>>}
      \cup {SubSeq(l, 1, k) : l \in {LinkedFirst, PlainFirst}, k \in 1..MaxElems}

\* the heading of a detail page
DetailHeading == Element(0, None, None, <<>>, "h1", <<"Acme GmbH">>)

\* build_search_url puts the query string "?q=" into every search url
IsSearchUrl(u) == Contains(u, <<"?q=">>)

\* documents the server answers with for a url; <<>> is the empty body
Bodies(u) ==
    IF IsSearchUrl(u) THEN SearchDocs
    ELSE {<<>>, <<DetailHeading>>}

\* the body of an error response
ErrorPage == <<PlainDiv>>

\* outcome of one session.get: a transport exception or a response
Raised == [exc |-> TRUE, status |-> 0, text |-> <<>>]
Answered(status, text) == [exc |-> FALSE, status |-> status, text |-> text]

FailingOutcomes == {Raised} \cup {Answered(st, ErrorPage) : st \in ErrorStatuses}

Outcomes(u) ==
    FailingOutcomes \cup {Answered(st, b) : st \in OkStatuses, b \in Bodies(u)}

\* what the transport does with the successive requests of a call that makes
\* at most n of them: it answers at once, or fails on every request but the
\* last, or fails on every request
TransportRuns(u, n) ==
    {[i \in 1..k |-> o] \o <<Answered(st, b)>> :
        k \in {0, n - 1}, o \in FailingOutcomes,
        st \in OkStatuses, b \in Bodies(u)}
      \cup {[i \in 1..n |-> o] : o \in FailingOutcomes}

\* ------------------------------------------------------------------------
\* fetch_page
\* ------------------------------------------------------------------------
NoResponse == Answered(0, <<>>)

\* no call is running
IdleFetch ==
    [fpc |-> "idle", url |-> <<>>, retries |-> 0, backoff_factor |-> 0,
     attempt |-> 0, response |-> NoResponse, nreq |-> 0,
     failed_attempts |-> 0, slept |-> <<>>, result |-> <<>>]

\* the frame on entry: retry_config = retry_config or RetryConfig();
\* attempt = 0. Besides the locals it counts the session.get calls (nreq),
\* those that ended in the except clause (failed_attempts), and keeps the
\* delays handed to time.sleep (slept).
FetchStart(u, r, b) ==
    [fpc |-> "loop", url |-> u, retries |-> r, backoff_factor |-> b,
     attempt |-> 0, response |-> NoResponse, nreq |-> 0,
     failed_attempts |-> 0, slept |-> <<>>, result |-> <<>>]

\* fault: the loop gives up one attempt early
LoopConditionEarly(n, r) == n < r

\* while attempt <= retry_config.retries
LoopCondition(n, r) == n <= r

LoopStep(f) ==
    [f EXCEPT !.fpc = IF LoopCondition(f.attempt, f.retries)
                        THEN "try" ELSE "failed"]

\* try: response = session.get(...); response.raise_for_status();
\*      return response.text
\* except (requests.RequestException, Exception): every failure is caught
TryStep(f, o) ==
    IF o.exc \/ RaisesForStatus(o.status)
      THEN [f EXCEPT !.nreq = @ + 1,
                     !.response = IF o.exc THEN @ ELSE o,
                     !.failed_attempts = @ + 1,
                     !.fpc = "except"]
      ELSE [f EXCEPT !.nreq = @ + 1,
                     !.response = o,
                     !.result = o.text,
                     !.fpc = "returned"]

\* fault: the break comes one failure late, after one more sleep
ExhaustedLate(n, r) == n > r

\* if attempt >= retry_config.retries: break
Exhausted(n, r) == n >= r

ExceptStep(f) ==
    [f EXCEPT !.fpc = IF Exhausted(f.attempt, f.retries)
                        THEN "failed" ELSE "sleep"]

\* fault: linear instead of exponential backoff
DelayLinear(factor, n) == factor * (n + 1)

\* delay = retry_config.backoff_factor * (2**attempt)
Delay(factor, n) == factor * Pow2(n)

\* time.sleep(delay); attempt += 1
SleepStep(f) ==
    [f EXCEPT !.slept = Append(@, Delay(f.backoff_factor, f.attempt)),
              !.attempt = @ + 1,
              !.fpc = "loop"]

\* after the loop: logger.error(...); return ""
FailedStep(f) == [f EXCEPT !.result = <<>>, !.fpc = "returned"]

\* the steps as actions on the frame of the running call
FetchLoop ==
    /\ fetch.fpc = "loop"
    /\ fetch' = LoopStep(fetch)
    /\ UNCHANGED <<crawlVars, parseVars>>

FetchTry ==
    /\ fetch.fpc = "try"
    /\ \E o \in Outcomes(fetch.url) : fetch' = TryStep(fetch, o)
    /\ UNCHANGED <<crawlVars, parseVars>>

FetchExcept ==
    /\ fetch.fpc = "except"
    /\ fetch' = ExceptStep(fetch)
    /\ UNCHANGED <<crawlVars, parseVars>>

FetchSleep ==
    /\ fetch.fpc = "sleep"
    /\ fetch' = SleepStep(fetch)
    /\ UNCHANGED <<crawlVars, parseVars>>

FetchFailed ==
    /\ fetch.fpc = "failed"
    /\ fetch' = FailedStep(fetch)
    /\ UNCHANGED <<crawlVars, parseVars>>

\* a whole call: the steps taken from frame f until the return, the
\* transport answering the successive requests with the outcomes os
RECURSIVE RunFetch(_, _)
RunFetch(f, os) ==
    IF f.fpc = "loop" THEN RunFetch(LoopStep(f), os)
    ELSE IF f.fpc = "try" /\ os /= <<>>
      THEN RunFetch(TryStep(f, Head(os)), Tail(os))
    ELSE IF f.fpc = "except" THEN RunFetch(ExceptStep(f), os)
    ELSE IF f.fpc = "sleep" THEN RunFetch(SleepStep(f), os)
    ELSE IF f.fpc = "failed" THEN RunFetch(FailedStep(f), os)
    ELSE f

\* fetch_page(session, url) as the crawl loops call it, with RetryConfig()
fetch_page(u, os) ==
    RunFetch(FetchStart(u, DefaultRetries, DefaultBackoffFactor), os)

\* ------------------------------------------------------------------------
\* main: configuration
\* ------------------------------------------------------------------------
Company == <<"company">>
Product == <<"product">>

\* an optional integer: --max-pages as parsed (None without the flag),
\* "max_pages" as a JSON file holds it (null)
NoInt == [given |-> FALSE, val |-> 0]
SomeInt(n) == [given |-> TRUE, val |-> n]

\* A JSON file is the set of the keys it holds (has) and their values; the
\* value of a key it does not hold is never read.
\* effective = dict(base_settings); effective.update(input_data)
Update(base, input) ==
    [has   |-> base.has \cup input.has,
     query |-> IF "query" \in input.has THEN input.query ELSE base.query,
     mode  |-> IF "mode" \in input.has THEN input.mode ELSE base.mode,
     max_pages |->
         IF "max_pages" \in input.has THEN input.max_pages ELSE base.max_pages,
     include_company_details |->
         IF "include_company_details" \in input.has
           THEN input.include_company_details
           ELSE base.include_company_details]

\* resolve_effective_config without the exit: the merged files, overridden
\* by the command line; the query is args.query or the merged one
ResolveEffectiveConfig(settings, input, args) ==
    LET merged == Update(settings, input)
    IN  [has   |-> merged.has
                     \cup (IF Truthy(args.mode) THEN {"mode"} ELSE {})
                     \cup (IF args.max_pages.given THEN {"max_pages"} ELSE {})
                     \cup (IF args.no_details
                             THEN {"include_company_details"} ELSE {}),
         query |-> Or(args.query,
                      IF "query" \in merged.has THEN merged.query ELSE None),
         mode  |-> IF Truthy(args.mode) THEN args.mode ELSE merged.mode,
         max_pages |->
             IF args.max_pages.given THEN args.max_pages ELSE merged.max_pages,
         include_company_details |->
             IF args.no_details THEN FALSE
             ELSE merged.include_company_details]

\* max_pages = int(config.get("max_pages", 1) or 0)
MaxPagesOf(config) ==
    IF "max_pages" \notin config.has THEN 1
    ELSE IF config.max_pages.given THEN config.max_pages.val
    ELSE 0

\* mode = config.get("mode", "company")
ModeOf(config) == IF "mode" \in config.has THEN config.mode ELSE Company

\* include_details = bool(config.get("include_company_details", True))
IncludeDetailsOf(config) ==
    IF "include_company_details" \in config.has
      THEN config.include_company_details
      ELSE TRUE

\* what the settings file, the input file and the command line can hold
SettingsFiles ==
    [has : {{"mode", "include_company_details"},
            {"mode", "max_pages", "include_company_details"},
            {"query", "mode", "max_pages", "include_company_details"}},
     query : {<<"Metallbau">>},
     mode : {Company, Product},
     max_pages : {SomeInt(n) : n \in 0..MaxPagesOpt},
     include_company_details : BOOLEAN]

InputFiles ==
    [has : {{}, {"query"}, {"query", "max_pages"}},
     query : {<<>>, <<"Metallbau">>},
     mode : {Company},
     max_pages : {NoInt},
     include_company_details : {TRUE}]

CommandLines ==
    [query : {None, <<>>, <<"Metallbau">>},
     mode : {None, Product},
     max_pages : {NoInt, SomeInt(0)},
     no_details : BOOLEAN]

\* fault: only an absent query is refused, an empty one is let through
QueryMissingOnlyNone(q) == q = None

\* if not query: ... sys.exit(1)
QueryMissing(q) == ~Truthy(q)

\* main up to the call of the scrape function; sys.exit(1) without a query
Main ==
    /\ pc = "main"
    /\ \E settings \in SettingsFiles, input \in InputFiles,
          args \in CommandLines :
         LET config == ResolveEffectiveConfig(settings, input, args) IN
           IF QueryMissing(config.query)
             THEN /\ query' = config.query
                  /\ exit_status' = 1
                  /\ pc' = "exit"
                  /\ UNCHANGED <<mode, max_pages, include_details>>
             ELSE /\ query' = config.query
                  /\ mode' = ModeOf(config)
                  /\ max_pages' = MaxPagesOf(config)
                  /\ include_details' = IncludeDetailsOf(config)
                  /\ pc' = "scrape"
                  /\ UNCHANGED exit_status
    /\ UNCHANGED <<session, page, accumulated, on_page, idx, files, calls>>
    /\ UNCHANGED <<fetch, parseVars>>

\* ------------------------------------------------------------------------
\* scrape_company_mode / scrape_product_mode
\* ------------------------------------------------------------------------
\* build_search_url for language "de" and region "DE"
build_search_url(q, m, p) ==
    BaseUrl \o <<"/", "de", "/">>
            \o <<IF m = Company THEN "firmen" ELSE "produkte">>
            \o <<"/", "?q=">> \o q
            \o <<"&page=", ToString(p), "&country=", "DE">>

\* the extractor of the mode
Extract(m, html) ==
    IF m = Company THEN parse_company_list(html) ELSE parse_product_list(html)

\* an entry of the log: a call of fetch_page for a search page (idx 0) or
\* for the details of card idx of a page, its url and the text it returned
Call(kind, p, i, u, f) ==
    [kind |-> kind, page |-> p, idx |-> i, url |-> u, text |-> f.result]

\* session = fetch_page.create_session(); page = 1; all_... = []
ScrapeStart ==
    /\ pc = "scrape"
    /\ session' = TRUE
    /\ page' = 1
    /\ accumulated' = <<>>
    /\ pc' = "loop"
    /\ UNCHANGED <<exit_status, query, mode, max_pages, include_details,
                   on_page, idx, files, calls>>
    /\ UNCHANGED <<fetch, parseVars>>

\* if not html_text: break
EmptyResponse(html_text) == html_text = <<>>

\* fault: a page without records does not end the crawl
NoRecordsIgnored(records) == FALSE

\* if not companies_on_page: break  /  if not products_on_page: break
NoRecords(records) == records = <<>>

\* top of the loop: the search page is fetched, then the two break tests
\* and the extraction
SearchPage ==
    /\ pc = "loop"
    /\ page <= PageCap
    /\ LET search_url == build_search_url(query, mode, page) IN
       \E os \in TransportRuns(search_url, DefaultRetries + 1) :
         LET f == fetch_page(search_url, os)
             html_text == f.result
             records == Extract(mode, html_text)
         IN  /\ calls' = Append(calls, Call("search", page, 0, search_url, f))
             /\ IF EmptyResponse(html_text)
                  THEN /\ pc' = "return"
                       /\ UNCHANGED <<on_page, idx>>
                  ELSE IF NoRecords(records)
                    THEN /\ pc' = "return"
                         /\ on_page' = records
                         /\ UNCHANGED idx
                    ELSE /\ on_page' = records
                         /\ idx' = 1
                         /\ pc' = IF mode = Company /\ include_details
                                    THEN "details" ELSE "extend"
    /\ UNCHANGED <<exit_status, query, mode, max_pages, include_details,
                   session, page, accumulated, files>>
    /\ UNCHANGED <<fetch, parseVars>>

\* fault: the parsed details are not attached
WithDetailsLost(company, details) == company

\* company["details"] = details_data
WithDetails(company, details) ==
    [k \in DOMAIN company \cup {"details"} |->
       IF k = "details" THEN details ELSE company[k]]

\* fault: a failed detail fetch ends the crawl
DetailStepAbort ==
    /\ pc = "details"
    /\ IF idx > Len(on_page)
         THEN /\ pc' = "extend"
              /\ UNCHANGED <<idx, calls, on_page>>
         ELSE LET company == on_page[idx]
                  details_url == company.details_url
              IN  IF ~Truthy(details_url)
                    THEN /\ idx' = idx + 1
                         /\ UNCHANGED <<pc, calls, on_page>>
                    ELSE \E os \in TransportRuns(details_url,
                                                 DefaultRetries + 1) :
                           LET f == fetch_page(details_url, os)
                               details_html == f.result
                           IN  /\ calls' = Append(calls,
                                     Call("detail", page, idx, details_url, f))
                               /\ idx' = idx + 1
                               /\ IF details_html = <<>>
                                    THEN /\ on_page' = on_page
                                         /\ pc' = "return"
                                    ELSE /\ on_page' =
                                           [on_page EXCEPT ![idx] =
                                              WithDetails(company,
                                                parse_company_details(
                                                  details_html,
                                                  company.company_id))]
                                         /\ pc' = pc
    /\ UNCHANGED <<exit_status, query, mode, max_pages, include_details,
                   session, page, accumulated, files>>
    /\ UNCHANGED <<fetch, parseVars>>

\* one turn of `for company in companies_on_page`: without a details_url
\* continue; else fetch the details and, unless the fetch came back empty,
\* attach what parse_company_details makes of them; after the last company
\* go on to extend
DetailStep ==
    /\ pc = "details"
    /\ IF idx > Len(on_page)
         THEN /\ pc' = "extend"
              /\ UNCHANGED <<idx, calls, on_page>>
         ELSE LET company == on_page[idx]
                  details_url == company.details_url
              IN  IF ~Truthy(details_url)
                    THEN /\ idx' = idx + 1
                         /\ UNCHANGED <<pc, calls, on_page>>
                    ELSE \E os \in TransportRuns(details_url,
                                                 DefaultRetries + 1) :
                           LET f == fetch_page(details_url, os)
                               details_html == f.result
                           IN  /\ calls' = Append(calls,
                                     Call("detail", page, idx, details_url, f))
                               /\ idx' = idx + 1
                               /\ pc' = pc
                               /\ on_page' =
                                    IF details_html = <<>> THEN on_page
                                    ELSE [on_page EXCEPT ![idx] =
                                            WithDetails(company,
                                              parse_company_details(
                                                details_html,
                                                company.company_id))]
    /\ UNCHANGED <<exit_status, query, mode, max_pages, include_details,
                   session, page, accumulated, files>>
    /\ UNCHANGED <<fetch, parseVars>>

\* fault: the limit is tested with > instead of >=
PageLimitReachedLate(limit, p) == limit /= 0 /\ limit > 0 /\ p > limit

\* if max_pages and max_pages > 0 and page >= max_pages: break
PageLimitReached(limit, p) == limit /= 0 /\ limit > 0 /\ p >= limit

\* fault: the records of a page are put in front of the earlier ones
ExtendedInFront(all, records) == records \o all

\* all_companies.extend(companies_on_page)
Extended(all, records) == all \o records

\* all_....extend(..._on_page); the max_pages test; page += 1
Extend ==
    /\ pc = "extend"
    /\ accumulated' = Extended(accumulated, on_page)
    /\ IF PageLimitReached(max_pages, page)
         THEN /\ pc' = "return"
              /\ UNCHANGED page
         ELSE /\ page' = page + 1
              /\ pc' = "loop"
    /\ UNCHANGED <<exit_status, query, mode, max_pages, include_details,
                   session, on_page, idx, files, calls>>
    /\ UNCHANGED <<fetch, parseVars>>

\* ------------------------------------------------------------------------
\* export_to_json
\* ------------------------------------------------------------------------
\* fault: the count is taken before the last record is added
ExportPayloadMiscounted(records) ==
    [meta |-> [record_count |-> IF records = <<>> THEN 0 ELSE Len(records) - 1],
     data |-> records]

\* the payload dumped to the file (without the timestamp exported_at)
ExportPayload(records) ==
    LET records_list == records
    IN  [meta |-> [record_count |-> Len(records_list)], data |-> records_list]

\* main: results = scrape_...(...); export_to_json(results, output_path)
Export ==
    /\ pc = "return"
    /\ files' = files \cup {ExportPayload(accumulated)}
    /\ pc' = "done"
    /\ UNCHANGED <<exit_status, query, mode, max_pages, include_details,
                   session, page, accumulated, on_page, idx, calls>>
    /\ UNCHANGED <<fetch, parseVars>>

\* ------------------------------------------------------------------------
\* The run of the program
\* ------------------------------------------------------------------------
\* no summary made yet
NoSummary ==
    [company_id |-> None, name |-> None,
     address |-> [street |-> None, postal_code |-> None, city |-> None,
                  country_code |-> None, full |-> None],
     logo_url |-> None, details_url |-> None]

\* the crawl variables before main has run
CrawlAtStart ==
    /\ exit_status = 0
    /\ query = None
    /\ mode = Company
    /\ max_pages = 0
    /\ include_details = FALSE
    /\ session = FALSE
    /\ page = 0
    /\ accumulated = <<>>
    /\ on_page = <<>>
    /\ idx = 0
    /\ files = {}
    /\ calls = <<>>

Init ==
    /\ pc = "main"
    /\ CrawlAtStart
    /\ fetch = IdleFetch
    /\ card = PlainDiv
    /\ summary = NoSummary
    /\ page_html = <<>>

Next ==
    \/ Main
    \/ ScrapeStart
    \/ SearchPage
    \/ DetailStep
    \/ Extend
    \/ Export

Spec == Init /\ [][Next]_vars

\* ------------------------------------------------------------------------
\* fetch_page step by step, for every retry configuration within the bounds
\* ------------------------------------------------------------------------
InitFetch ==
    /\ pc = "fetch_page"
    /\ CrawlAtStart
    /\ \E r \in 0..MaxRetries, b \in 1..MaxBackoff :
         fetch = FetchStart(UrlJoin(BaseUrl, ExampleHref), r, b)
    /\ card = PlainDiv
    /\ summary = NoSummary
    /\ page_html = <<>>

NextFetch ==
    \/ FetchLoop
    \/ FetchTry
    \/ FetchExcept
    \/ FetchSleep
    \/ FetchFailed

SpecFetch == InitFetch /\ [][NextFetch]_vars

\* ------------------------------------------------------------------------
\* parse_company_list on one card, for every card within the bounds
\* ------------------------------------------------------------------------
\* the hrefs tried: the example of the specification, a path with a
\* trailing slash and no dash, the bare slash and a relative name
Hrefs ==
    {ExampleHref, <<"/", "firmen", "/", "acme", "/">>, <<"/">>, <<"x">>}

\* attribute values: no attribute, the empty value, a value
AnchorsTried ==
    [data_test : {"company-link", ""},
     data_id   : {None, <<>>, <<"8">>},
     href      : {None} \cup Hrefs]

\* cards with anchors and nothing else, and cards without anchors with or
\* without a heading, an address container and an image
CardsTried ==
    [sel : {1},
     data_id : {None, <<>>, <<"17">>},
     data_company_id : {None, <<>>, <<"23">>},
     anchors : SeqsUpTo(AnchorsTried, MaxAnchors),
     tag : {"article"},
     text : {<<>>},
     heading : {None}, address : {None}, img_src : {None}]
    \cup
    [sel : {1},
     data_id : {None, <<>>, <<"17">>},
     data_company_id : {None, <<>>, <<"23">>},
     anchors : {<<>>},
     tag : {"article"},
     text : {<<>>},
     heading : {None, <<>>, <<"Acme GmbH">>},
     address : {None, <<>>, <<"Hauptstr. 1">>},
     img_src : {None, <<>>, <<"logo.png">>}]

\* the body of the loop over the cards, for one card
ParseCard ==
    /\ pc = "parse"
    /\ summary' = parse_company_list(<<card>>)[1]
    /\ pc' = "parsed"
    /\ UNCHANGED <<exit_status, query, mode, max_pages, include_details,
                   session, page, accumulated, on_page, idx, files, calls>>
    /\ UNCHANGED <<fetch, card, page_html>>

\* the body of parse_product_list's loop over the cards, for the same card
ParseProductCard ==
    /\ pc = "parse"
    /\ summary' = parse_product_list(<<card>>)[1]
    /\ pc' = "product_parsed"
    /\ UNCHANGED <<exit_status, query, mode, max_pages, include_details,
                   session, page, accumulated, on_page, idx, files, calls>>
    /\ UNCHANGED <<fetch, card, page_html>>

InitParse ==
    /\ pc = "parse"
    /\ CrawlAtStart
    /\ fetch = IdleFetch
    /\ card \in CardsTried
    /\ summary = NoSummary
    /\ page_html = <<>>

NextParse ==
    \/ ParseCard
    \/ ParseProductCard

SpecParse == InitParse /\ [][NextParse]_vars

\* ------------------------------------------------------------------------
\* parse_company_details on a page with an address container, for every
\* address text within the bounds
\* ------------------------------------------------------------------------
AddressTokens == {"Ulm", "de", " ", ","}

\* "Hauptstr. 1, 12345 Berlin, Germany"
ExampleAddress ==
    <<"Hauptstr.", " ", "1", ",", " ", "12345", " ", "Berlin", ",", " ",
      "Germany">>

AddressTexts == SeqsUpTo(AddressTokens, MaxAddrLen) \cup {ExampleAddress}

AddressElement(text) == Element(0, None, None, <<>>, "address", text)

\* parse_company_details on the page made of the element; the IndexError
\* of the country_code line ends it without a result
ParseDetails ==
    /\ pc = "parse_details"
    /\ IF AddressRaises(ExtractText(AddressText(<<card>>)))
         THEN /\ pc' = "raised"
              /\ UNCHANGED summary
         ELSE /\ summary' = parse_company_details(<<card>>, None)
              /\ pc' = "details_parsed"
    /\ UNCHANGED <<exit_status, query, mode, max_pages, include_details,
                   session, page, accumulated, on_page, idx, files, calls>>
    /\ UNCHANGED <<fetch, card, page_html>>

InitDetails ==
    /\ pc = "parse_details"
    /\ CrawlAtStart
    /\ fetch = IdleFetch
    /\ card \in {AddressElement(text) : text \in AddressTexts}
    /\ summary = NoSummary
    /\ page_html = <<>>

NextDetails == ParseDetails

SpecDetails == InitDetails /\ [][NextDetails]_vars

\* ------------------------------------------------------------------------
\* parse_company_list / parse_product_list on a whole document, for every
\* document within the bounds
\* ------------------------------------------------------------------------
\* the documents of up to MaxListLen elements, each matching one of the
\* three card selectors or none, the i-th with data-id "i"
ListDocs ==
    UNION {{[i \in 1..n |->
               Element(sels[i], <<ToString(i)>>, None, <<>>, "div", <<>>)] :
            sels \in [1..n -> 0..3]} : n \in 0..MaxListLen}

\* the list extractor of the mode applied to the document
ParseList ==
    /\ pc = "parse_list"
    /\ on_page' = Extract(mode, page_html)
    /\ pc' = "list_parsed"
    /\ UNCHANGED <<exit_status, query, mode, max_pages, include_details,
                   session, page, accumulated, idx, files, calls>>
    /\ UNCHANGED <<fetch, parseVars>>

InitList ==
    /\ pc = "parse_list"
    /\ exit_status = 0
    /\ query = None
    /\ mode \in {Company, Product}
    /\ max_pages = 0
    /\ include_details = FALSE
    /\ session = FALSE
    /\ page = 0
    /\ accumulated = <<>>
    /\ on_page = <<>>
    /\ idx = 0
    /\ files = {}
    /\ calls = <<>>
    /\ fetch = IdleFetch
    /\ card = PlainDiv
    /\ summary = NoSummary
    /\ page_html \in ListDocs

NextList == ParseList

SpecList == InitList /\ [][NextList]_vars

\* ------------------------------------------------------------------------
\* Properties of fetch_page
\* ------------------------------------------------------------------------
FetchPositions == {"idle", "loop", "try", "except", "sleep", "failed", "returned"}

\* the call has returned and every request it made failed
ReturnedAllFailed ==
    fetch.fpc = "returned" /\ fetch.failed_attempts = fetch.nreq

\* the call has returned after a request that succeeded
ReturnedSuccess ==
    fetch.fpc = "returned" /\ fetch.failed_attempts < fetch.nreq

\* C4: fetch_page never leaves its own positions (no failure escapes to the
\* caller); when every attempt has failed, by a transport exception or an
\* HTTP status >= 400, the loop is left after exactly retries + 1 requests
\* and the call returns the empty string.
C4Theorem ==
    /\ fetch.fpc \in FetchPositions
    /\ fetch.fpc = "failed" =>
         /\ fetch.nreq = fetch.retries + 1
         /\ fetch.failed_attempts = fetch.nreq
    /\ ReturnedAllFailed =>
         /\ fetch.nreq = fetch.retries + 1
         /\ fetch.result = <<>>

\* a call with retries > 0 returned "" after failures of both kinds
C4Witness ==
    /\ ReturnedAllFailed
    /\ fetch.retries = DefaultRetries
    /\ fetch.nreq = DefaultRetries + 1
    /\ fetch.response.status \in ErrorStatuses
    /\ fetch.result = <<>>

\* C5: the delay slept before retry i (0-indexed) is backoff_factor * 2^i;
\* if the first k attempts fail (k <= retries) and the next succeeds, the
\* call makes k + 1 requests, returns the body of the successful response
\* and has slept backoff_factor * (2^k - 1) in total.
C5Theorem ==
    /\ \A i \in 1..Len(fetch.slept) :
         fetch.slept[i] = fetch.backoff_factor * Pow2(i - 1)
    /\ ReturnedSuccess =>
         /\ fetch.nreq = fetch.failed_attempts + 1
         /\ fetch.failed_attempts <= fetch.retries
         /\ Len(fetch.slept) = fetch.failed_attempts
         /\ fetch.result = fetch.response.text
         /\ SumSeq(fetch.slept) =
              fetch.backoff_factor * (Pow2(fetch.failed_attempts) - 1)

\* the example: retries = 3, two failures, then success with a body
C5Witness ==
    /\ ReturnedSuccess
    /\ fetch.retries = 3
    /\ fetch.failed_attempts = 2
    /\ fetch.nreq = 3
    /\ fetch.result /= <<>>
    /\ SumSeq(fetch.slept) = fetch.backoff_factor * (1 + 2)

\* C15: a backoff sleep happens only between two attempts. At every position
\* the sleeps number the requests made, less the one whose outcome is being
\* handled; a sleep leads back to the loop head and the loop head always
\* leads to the next request; after the last failure the call goes to its
\* return without sleeping, so on exhaustion there are exactly retries
\* sleeps, backoff_factor * (2^retries - 1) in total, and "" is returned;
\* once the call has returned, after a success or not, it makes no further
\* request and sleeps no more.
C15Theorem ==
    /\ [](/\ fetch.fpc \in {"loop", "try"} =>
               Len(fetch.slept) = fetch.nreq
          /\ fetch.fpc \in {"except", "sleep", "failed", "returned"} =>
               Len(fetch.slept) = fetch.nreq - 1
          /\ fetch.fpc = "sleep" => fetch.nreq <= fetch.retries
          /\ ReturnedAllFailed =>
               /\ Len(fetch.slept) = fetch.retries
               /\ SumSeq(fetch.slept) =
                    fetch.backoff_factor * (Pow2(fetch.retries) - 1)
               /\ fetch.result = <<>>)
    /\ [][/\ fetch.fpc = "sleep" => fetch'.fpc = "loop"
          /\ fetch.fpc = "loop" =>
               /\ fetch'.fpc = "try"
               /\ fetch'.nreq = fetch.nreq
          /\ fetch.fpc = "try" => fetch'.nreq = fetch.nreq + 1
          /\ (fetch.fpc = "except" /\ fetch.nreq = fetch.retries + 1) =>
               /\ fetch'.fpc = "failed"
               /\ fetch'.slept = fetch.slept
          /\ fetch.fpc = "failed" =>
               /\ fetch'.fpc = "returned"
               /\ fetch'.slept = fetch.slept
               /\ fetch'.nreq = fetch.nreq
               /\ fetch'.result = <<>>
          /\ fetch.fpc = "returned" =>
               /\ fetch'.nreq = fetch.nreq
               /\ fetch'.slept = fetch.slept]_vars

\* a call with the largest retries returned "" after a sleep before each of
\* its retries and none after the last failure
C15Witness ==
    /\ ReturnedAllFailed
    /\ fetch.retries = MaxRetries
    /\ fetch.backoff_factor = MaxBackoff
    /\ fetch.nreq = MaxRetries + 1
    /\ Len(fetch.slept) = MaxRetries
    /\ SumSeq(fetch.slept) = MaxBackoff * (Pow2(MaxRetries) - 1)

\* ------------------------------------------------------------------------
\* Properties of the crawl
\* ------------------------------------------------------------------------
\* positions in the log of the search calls / of the call for page p
SearchCalls == {k \in DOMAIN calls : calls[k].kind = "search"}
SearchCallsFor(p) == {k \in SearchCalls : calls[k].page = p}

\* what the extractor made of search page p
RecordsOf(p) ==
    IF SearchCallsFor(p) = {} THEN <<>>
    ELSE Extract(mode, calls[CHOOSE k \in SearchCallsFor(p) : TRUE].text)

\* positions in the log of the detail calls for card i of page p
DetailCalls(p, i) ==
    {k \in DOMAIN calls :
       calls[k].kind = "detail" /\ calls[k].page = p /\ calls[k].idx = i}

\* the text the detail call for card i of page p returned ("" without call)
DetailText(p, i) ==
    IF DetailCalls(p, i) = {} THEN <<>>
    ELSE calls[CHOOSE k \in DetailCalls(p, i) : TRUE].text

\* the record card i of page p should have become
RecordFor(p, i) ==
    LET r == RecordsOf(p)[i] IN
      IF DetailText(p, i) = <<>> THEN r
      ELSE [k \in DOMAIN r \cup {"details"} |->
              IF k = "details"
                THEN parse_company_details(DetailText(p, i), r.company_id)
                ELSE r[k]]

PageRecords(p) == [i \in 1..Len(RecordsOf(p)) |-> RecordFor(p, i)]

RECURSIVE RecordsUpTo(_)
RecordsUpTo(p) == IF p <= 0 THEN <<>> ELSE RecordsUpTo(p - 1) \o PageRecords(p)

\* number of records of the pages before p
RECURSIVE Offset(_)
Offset(p) == IF p <= 1 THEN 0 ELSE Offset(p - 1) + Len(RecordsOf(p - 1))

\* the scrape function has returned
CrawlReturned == pc \in {"return", "done"}

\* the call was for a search page that came back empty or without records
Fruitless(c) == c.kind = "search" /\ Extract(mode, c.text) = <<>>

\* number of pages whose records have been added to the accumulated list
PagesAdded ==
    IF pc \in {"main", "exit", "scrape"} THEN 0
    ELSE IF pc \in {"loop", "details", "extend"} THEN page - 1
    ELSE IF calls /= <<>> /\ Fruitless(calls[Len(calls)]) THEN page - 1
    ELSE page

\* C1: the search pages are requested in the order 1, 2, 3, ..., each with
\* the url of its page; a search page whose fetch returns "" or whose
\* extraction yields no record is the last call of the crawl, the crawl has
\* returned, and the result is exactly the records of the pages before it.
C1Theorem ==
    /\ \A k \in SearchCalls :
         /\ calls[k].page = Cardinality({j \in SearchCalls : j <= k})
         /\ calls[k].url = build_search_url(query, mode, calls[k].page)
    /\ \A k \in DOMAIN calls :
         Fruitless(calls[k]) =>
           /\ k = Len(calls)
           /\ CrawlReturned
           /\ accumulated = RecordsUpTo(calls[k].page - 1)

\* page 1 gave records, page 2 came back with a document without any card,
\* and the crawl returned the records of page 1
C1Witness ==
    /\ CrawlReturned
    /\ Cardinality(SearchCalls) = 2
    /\ calls[Len(calls)].page = 2
    /\ calls[Len(calls)].text = <<PlainDiv>>
    /\ accumulated /= <<>>
    /\ accumulated = PageRecords(1)

\* C2: with max_pages = N > 0 no search page above N is requested, and when
\* page N gave records they are accumulated before the crawl stops; with
\* max_pages = 0 the crawl returns only after an empty fetch or a page
\* without records.
C2Theorem ==
    /\ max_pages > 0 => \A k \in DOMAIN calls : calls[k].page <= max_pages
    /\ (max_pages > 0 /\ CrawlReturned /\ RecordsOf(max_pages) /= <<>>) =>
         /\ Len(accumulated) = Offset(max_pages + 1)
         /\ \A i \in 1..Len(RecordsOf(max_pages)) :
              accumulated[Offset(max_pages) + i] = RecordFor(max_pages, i)
    /\ (max_pages = 0 /\ CrawlReturned) =>
         /\ calls /= <<>>
         /\ Fruitless(calls[Len(calls)])

\* the crawl stopped at the limit N = 2 with the records of page 2 added
C2Witness ==
    /\ CrawlReturned
    /\ max_pages = 2
    /\ page = 2
    /\ RecordsOf(2) /= <<>>
    /\ Len(accumulated) = Len(RecordsOf(1)) + Len(RecordsOf(2))

\* card i of page p has a details_url
HasDetailsUrl(p, i) == Truthy(RecordsOf(p)[i].details_url)

\* the detail loop is past card i of page p
PastCard(p, i) ==
    \/ page > p
    \/ page = p /\ pc \in {"extend", "return", "done"}
    \/ page = p /\ pc = "details" /\ idx > i

\* C3: a detail fetch that returned "" leaves its record without details
\* and aborts nothing: the record stays in its position on the page and in
\* the result, every later card of the page with a details_url gets its
\* detail fetch, and the crawl goes on to the next search page unless the
\* page limit ends it.
C3Theorem ==
    \A k \in DOMAIN calls :
      (calls[k].kind = "detail" /\ calls[k].text = <<>>) =>
        LET p == calls[k].page
            i == calls[k].idx
        IN  /\ page = p /\ pc = "details" => on_page[i] = RecordsOf(p)[i]
            /\ PagesAdded >= p =>
                 /\ Len(accumulated) >= Offset(p) + i
                 /\ accumulated[Offset(p) + i] = RecordsOf(p)[i]
            /\ \A j \in (i + 1)..Len(RecordsOf(p)) :
                 (PastCard(p, j) /\ HasDetailsUrl(p, j)) =>
                   DetailCalls(p, j) /= {}
            /\ PastCard(p, Len(RecordsOf(p)))
                 \/ (page = p /\ pc = "details")
            /\ CrawlReturned =>
                 \/ PageLimitReached(max_pages, p)
                 \/ SearchCallsFor(p + 1) /= {}

\* the detail fetch of the first card of page 1 failed, the second card got
\* its details, both records were accumulated and page 2 was requested
C3Witness ==
    /\ DetailCalls(1, 1) /= {}
    /\ DetailText(1, 1) = <<>>
    /\ DetailCalls(1, 2) /= {}
    /\ DetailText(1, 2) /= <<>>
    /\ SearchCallsFor(2) /= {}
    /\ Len(accumulated) >= 2
    /\ accumulated[1] = RecordsOf(1)[1]
    /\ "details" \in DOMAIN accumulated[2]

\* a record without the details attached to it
Base(r) ==
    IF "details" \in DOMAIN r
      THEN [k \in DOMAIN r \ {"details"} |-> r[k]]
      ELSE r

\* C6: the accumulated list is the concatenation, in page order, of the
\* records of the pages added so far, each page in card order: every record
\* once, none dropped, duplicated or reordered.
C6Theorem ==
    /\ Len(accumulated) = Offset(PagesAdded + 1)
    /\ \A p \in 1..PagesAdded :
         \A i \in 1..Len(RecordsOf(p)) :
           Base(accumulated[Offset(p) + i]) = RecordsOf(p)[i]

\* two pages with different records were added, the second after the first
C6Witness ==
    /\ CrawlReturned
    /\ PagesAdded = 2
    /\ Len(RecordsOf(1)) = 2
    /\ RecordsOf(1)[1] /= RecordsOf(1)[2]
    /\ Len(RecordsOf(2)) = 1
    /\ Len(accumulated) = 3

\* C7: a record of the result carries details exactly when the crawl ran in
\* company mode with detail fetch enabled, the record has a details_url and
\* the fetch of that url returned a non-empty body; the details are then
\* what parse_company_details makes of that body.
C7Theorem ==
    \A p \in 1..PagesAdded :
      \A i \in 1..Len(RecordsOf(p)) :
        LET r == accumulated[Offset(p) + i] IN
          /\ "details" \in DOMAIN r <=>
               /\ mode = Company
               /\ include_details
               /\ Truthy(RecordsOf(p)[i].details_url)
               /\ DetailText(p, i) /= <<>>
          /\ "details" \in DOMAIN r =>
               r.details = parse_company_details(DetailText(p, i),
                                                 RecordsOf(p)[i].company_id)

\* a returned result with a record with details and a record without
C7Witness ==
    /\ CrawlReturned
    /\ \E a, b \in DOMAIN accumulated :
         /\ "details" \in DOMAIN accumulated[a]
         /\ accumulated[a].details.name = <<"Acme GmbH">>
         /\ "details" \notin DOMAIN accumulated[b]
         /\ Truthy(accumulated[b].details_url)

\* C8: without a query from the command line or the files (absent or
\* empty) the run ends with exit status 1 before any network activity: no
\* session, no call of fetch_page, no file written.
C8Theorem ==
    /\ (pc /= "main" /\ ~Truthy(query)) => pc = "exit"
    /\ pc = "exit" =>
         /\ exit_status = 1
         /\ ~session
         /\ calls = <<>>
         /\ fetch = IdleFetch
         /\ files = {}

\* the run ended on an empty (not absent) query
C8Witness ==
    /\ pc = "exit"
    /\ query = <<>>
    /\ exit_status = 1

\* C9: in every payload written, meta.record_count is the length of data,
\* and data is the accumulated result in the same order, the empty result
\* included; a finished run has written one payload.
C9Theorem ==
    /\ pc = "done" => Cardinality(files) = 1
    /\ \A f \in files :
         /\ f.meta.record_count = Len(f.data)
         /\ f.data = accumulated

\* a payload of three records, and (in another run) the empty one
C9Witness ==
    /\ pc = "done"
    /\ \E f \in files : f.meta.record_count = 3 /\ Len(f.data) = 3

\* ------------------------------------------------------------------------
\* Properties of parse_company_list
\* ------------------------------------------------------------------------
\* C10: company_id is the highest-priority source that is present (an
\* attribute is present when it has a value): the card's own data attribute,
\* else the data attribute on the card's link, else the last dash-delimited
\* token of the link's href after trimming slashes; without any, it is None.
C10Claim ==
    LET Present(v) == Truthy(v)
        link == DetailsLink(card)
        ByPriority ==
          IF Present(card.data_id) THEN card.data_id
          ELSE IF Present(card.data_company_id) THEN card.data_company_id
          ELSE IF link /= <<>> /\ Present(link[1].data_id) THEN link[1].data_id
          ELSE IF link /= <<>> /\ HasHref(link[1])
            THEN HrefToken(link[1].href)
          ELSE None
    IN  pc = "parsed" => Or(summary.company_id, None) = Or(ByPriority, None)

\* C11: for every combination of card data attribute, company-link data
\* attribute and company-link href, parse_product_list yields the company_id
\* that parse_company_list yields for a card with the same attributes (an
\* empty value counted as absent; cards on which both extractors take the
\* same anchor for the company link).
C11Claim ==
    (pc = "product_parsed" /\ CompanyLink(card) = DetailsLink(card)) =>
      Or(summary.company_id, None) = Or(CompanyId(card), None)

\* C12: in a company summary an empty string is treated as absent: no
\* field of the summary, the nested address fields, company_id and logo_url
\* included, holds the empty string.
C12Claim ==
    pc = "parsed" =>
      /\ \A k \in DOMAIN summary \ {"address"} : summary[k] /= <<>>
      /\ \A k \in DOMAIN summary.address : summary.address[k] /= <<>>

\* ------------------------------------------------------------------------
\* Properties of parse_company_details
\* ------------------------------------------------------------------------
\* C13 as stated: the address full-text is split on commas into trimmed
\* parts (every part counted, an empty one too); part[0] is street; part[1],
\* if present, gives postal_code (first token) and city (the other tokens
\* joined by single spaces, absent without any); with at least 3 parts
\* country_code is the last token of the last part, uppercased, else absent
\* (an empty value counted as absent); the breakdown never raises.
C13Claim ==
    LET full   == ExtractText(card.text)
        pieces == SplitOn(full, ",")
        parts  == [i \in 1..Len(pieces) |-> Strip(pieces[i], " ")]
        tokens == IF Len(parts) >= 2 THEN Words(parts[2]) ELSE <<>>
        last   == Words(parts[Len(parts)])
        a      == summary.address
    IN  /\ pc /= "raised"
        /\ pc = "details_parsed" =>
             /\ Or(a.street, None) = Or(parts[1], None)
             /\ a.postal_code = IF tokens /= <<>> THEN tokens[1] ELSE None
             /\ a.city = IF Len(tokens) >= 2
                           THEN JoinWith(Tail(tokens), " ") ELSE None
             /\ a.country_code = IF Len(parts) >= 3 /\ last /= <<>>
                                   THEN Upper(last[Len(last)]) ELSE None

\* C13 amended: as stated, with the parts that are empty after trimming
\* dropped before the positions are counted; street is absent when no part
\* is left. "Hauptstr. 1, 12345 Berlin, Germany" gives street "Hauptstr. 1",
\* postal_code "12345", city "Berlin", country_code "GERMANY".
C13Theorem ==
    LET full   == ExtractText(card.text)
        pieces == SplitOn(full, ",")
        parts  == SelectSeq([i \in 1..Len(pieces) |-> Strip(pieces[i], " ")],
                            LAMBDA part : part /= <<>>)
        tokens == IF Len(parts) >= 2 THEN Words(parts[2]) ELSE <<>>
        a      == summary.address
    IN  /\ pc /= "raised"
        /\ pc = "details_parsed" =>
             /\ a.street = IF parts /= <<>> THEN parts[1] ELSE None
             /\ a.postal_code = IF tokens /= <<>> THEN tokens[1] ELSE None
             /\ a.city = IF Len(tokens) >= 2
                           THEN JoinWith(Tail(tokens), " ") ELSE None
             /\ a.country_code =
                  IF Len(parts) >= 3
                    THEN Upper(Words(parts[Len(parts)])
                                 [Len(Words(parts[Len(parts)]))])
                    ELSE None
        /\ (pc = "details_parsed" /\ card.text = ExampleAddress) =>
             /\ a.street = <<"Hauptstr.", " ", "1">>
             /\ a.postal_code = <<"12345">>
             /\ a.city = <<"Berlin">>
             /\ a.country_code = <<"GERMANY">>

\* a text with an empty part between two commas was broken down, the part
\* after it taken as the second
C13Witness ==
    /\ pc = "details_parsed"
    /\ card.text = <<"Ulm", ",", " ", ",", "de", " ", "Ulm">>
    /\ summary.address.street = <<"Ulm">>
    /\ summary.address.postal_code = <<"de">>
    /\ summary.address.city = <<"Ulm">>
    /\ summary.address.country_code = None

\* ------------------------------------------------------------------------
\* Properties of card discovery
\* ------------------------------------------------------------------------
\* C14 as stated: the three card selectors are tried in order and the cards
\* of a page are exactly the elements matching the first selector that
\* matches anything; an element matching only a later selector is no card.
C14Claim ==
    pc = "list_parsed" =>
      LET Matching(n) == {i \in DOMAIN page_html : page_html[i].sel = n}
          first == IF Matching(1) /= {} THEN 1
                   ELSE IF Matching(2) /= {} THEN 2
                   ELSE 3
      IN  /\ Len(on_page) = Cardinality(Matching(first))
          /\ mode = Company =>
                \A j \in DOMAIN on_page :
                  \E i \in Matching(first) : on_page[j].company_id = page_html[i].data_id

\* C14 amended: the cards of a page are the elements matching any of the
\* three card selectors, each once, in document order; an element matching
\* only a later selector is a card as well.
C14Theorem ==
    pc = "list_parsed" =>
      LET M == {i \in DOMAIN page_html : page_html[i].sel \in 1..3}
          Nth(j) == CHOOSE i \in M : Cardinality({m \in M : m < i}) = j - 1
      IN  /\ Len(on_page) = Cardinality(M)
          /\ mode = Company =>
                \A j \in DOMAIN on_page :
                  on_page[j].company_id = page_html[Nth(j)].data_id

\* a page with an element for the second selector before one for the
\* first, and one matching none: two cards, in document order
C14Witness ==
    /\ pc = "list_parsed"
    /\ mode = Company
    /\ Len(page_html) = 3
    /\ page_html[1].sel = 2 /\ page_html[2].sel = 0 /\ page_html[3].sel = 1
    /\ Len(on_page) = 2
    /\ on_page[1].company_id = <<"1">>
    /\ on_page[2].company_id = <<"3">>

====
